---------------------------- MODULE Spec2Model ----------------------------
(***************************************************************************)
(* Model of arc.h: atomically reference counted pointers in C.             *)
(*                                                                         *)
(* One allocation (header + payload) is modelled.  The header holds the    *)
(* two atomic counters.  Threads call the public functions of arc.h on     *)
(* handles; every atomic access of a function is one step, so the steps of *)
(* different threads interleave exactly where the C11 atomics allow it.    *)
(* Handles carry no tag in the code, so a handle is modelled by the count  *)
(* of strong and of weak handles each thread holds.  A thread may also     *)
(* operate on a handle another thread holds (a shared handle); the holder  *)
(* then keeps that handle until the operation has returned.                *)
(***************************************************************************)
EXTENDS Integers, FiniteSets, Sequences, TLC

\* ------------------------------------------------------------------ bounds
NumThreads == 2
MaxHandles == 4
WordBits == 4
\* the stress test, scaled down from NUM_THREADS 100 and NUM_OPERATIONS 10000
TestThreads == 2
TestOperations == 2

\* ------------------------------------------------------------ C constants
Modulus == 2 ^ WordBits
SIZE_MAX == Modulus - 1
\* const size_t __ARC_WEAK_MAX_REFS = SIZE_MAX>>1;
ARC_WEAK_MAX_REFS == SIZE_MAX \div 2

VARIABLES
  alloc,         \* "none" before arc_new, "live" after malloc, "freed" after free(header)
  strong_count,  \* header->strong_count
  weak_count,    \* header->weak_count
  pc,            \* pc[t]: where thread t is inside the function it is running
  prev,          \* prev[t]: the local `prev` of arc_free / weak_free
  snapshot,      \* snapshot[t]: the local `snapshot` of arc_downgrade / weak_upgrade
  destructor,    \* destructor[t]: whether arc_free was given a non-NULL destructor
  owner,         \* owner[t]: the thread holding the handle t's running call was given
  ret,           \* ret[t]: result of t's most recent call: "none", "handle", "NULL", "void"
  errno,         \* errno[t]: thread-local errno, set on failure and never cleared
  strongHeld,    \* strongHeld[t]: live strong handles held by t
  weakHeld,      \* weakHeld[t]: live (explicit) weak handles held by t
  freeCalls,     \* number of free(header) calls made so far
  dtorRuns,      \* number of destructor(arc_data) invocations made so far
  dtorNull,      \* number of times arc_free reached the destructor with NULL
  lastStrong,    \* number of arc_free calls whose fetch_sub returned 1
  uaf,           \* TRUE once the header or payload was accessed outside "live"
  cf,            \* [pure, net]: arc_clone calls minus arc_free calls, while pure
  cap,           \* the most handles (live or being made) the callers keep at once
  step,          \* step[t]: position of t in its test function (0: not in the test)
  iter,          \* iter[t]: the loop variable i of a test worker
  exited         \* TRUE once an ALWAYS_ASSERT of the test has called exit

vars == << alloc, strong_count, weak_count, pc, prev, snapshot, destructor,
           owner, ret, errno, strongHeld, weakHeld, freeCalls, dtorRuns,
           dtorNull, lastStrong, uaf, cf, cap, step, iter, exited >>

header == << strong_count, weak_count >>
locals == << prev, snapshot, destructor, owner >>
ghosts == << freeCalls, dtorRuns, dtorNull, lastStrong >>
script == << step, iter, exited >>

\* the threads of the run
Threads == DOMAIN pc

\* ----------------------------------------------------------------- helpers
RECURSIVE SumOver(_, _)
SumOver(f, S) ==
  IF S = {} THEN 0
  ELSE LET x == CHOOSE y \in S : TRUE IN f[x] + SumOver(f, S \ {x})

LiveStrong == SumOver(strongHeld, Threads)
LiveWeak == SumOver(weakHeld, Threads)

\* calls in progress that will hand a new handle to their caller
Pending == Cardinality({t \in Threads : pc[t] \in {"downgrade_cas", "upgrade_loop"}})

Handles == LiveStrong + LiveWeak + Pending

\* get_header(data) followed by an atomic access: the values the access can
\* read.  Within the allocation's lifetime it is the stored value; after
\* free(header) the read is of freed memory and may yield anything.
Load(counter) == IF alloc = "live" THEN {counter} ELSE 0..SIZE_MAX

\* every access of the header or the payload records whether the allocation
\* was live
Touch == uaf' = (uaf \/ alloc # "live")

\* a strong (weak) handle some thread holds, given to a call that does not
\* consume it
StrongAvailable == {u \in Threads : strongHeld[u] > 0}
WeakAvailable == {u \in Threads : weakHeld[u] > 0}

\* threads running a call on a strong (weak) handle that thread u holds
StrongBorrowers(u) == {t \in Threads : pc[t] = "downgrade_cas" /\ owner[t] = u}
WeakBorrowers(u) == {t \in Threads : pc[t] = "upgrade_loop" /\ owner[t] = u}

\* thread t is between two calls; every thread is
Idle(t) == pc[t] = "idle"
Quiescent == \A t \in Threads : Idle(t)

Return(t, r) ==
  /\ pc' = [pc EXCEPT ![t] = "idle"]
  /\ ret' = [ret EXCEPT ![t] = r]

InitWith(T) ==
  /\ alloc = "none"
  /\ strong_count = 0
  /\ weak_count = 0
  /\ pc = [t \in T |-> "idle"]
  /\ prev = [t \in T |-> 0]
  /\ snapshot = [t \in T |-> 0]
  /\ destructor = [t \in T |-> FALSE]
  /\ owner = [t \in T |-> t]
  /\ ret = [t \in T |-> "none"]
  /\ errno = [t \in T |-> "0"]
  /\ strongHeld = [t \in T |-> 0]
  /\ weakHeld = [t \in T |-> 0]
  /\ freeCalls = 0
  /\ dtorRuns = 0
  /\ dtorNull = 0
  /\ lastStrong = 0
  /\ uaf = FALSE
  /\ cf = [pure |-> TRUE, net |-> 0]

\* NumThreads threads calling the functions in any order
Init ==
  /\ InitWith(1..NumThreads)
  /\ cap = MaxHandles
  /\ step = [t \in 1..NumThreads |-> 0]
  /\ iter = [t \in 1..NumThreads |-> 0]
  /\ exited = FALSE

\* ------------------------------------------------- conditions of the code
\* if (nbytes == 0) return NULL;
InvalidSizeNever(nbytes) == FALSE
InvalidSize(nbytes) == nbytes = 0

\* atomic_init(&header->weak_count, 1): the implicit weak of the strong side
NoImplicitWeak == 1 - 1
InitialWeak == 1

\* `if (prev == 1)` in arc_free: are we the last strong survivor?
StrongLastOffByOne(p) == p <= 2
StrongLastPostValue(p) == p = 0
StrongLast(p) == p = 1

\* `if (prev == 1)` in weak_free: are we the last survivor?
WeakLastOffByOne(p) == p <= 2
WeakLastAlways(p) == p >= 1
WeakLast(p) == p = 1

\* `if (prev > __ARC_WEAK_MAX_REFS-1)` / `if (snapshot > __ARC_WEAK_MAX_REFS-1)`
OverflowsStrict(p) == p > ARC_WEAK_MAX_REFS
Overflows(p) == p > ARC_WEAK_MAX_REFS - 1

\* `if (snapshot == 0)` in weak_upgrade: nothing to upgrade into
NoStrongOwnerUnchecked(s) == FALSE
NoStrongOwnerOffByOne(s) == s <= 1
NoStrongOwner(s) == s = 0

\* atomic_compare_exchange_weak_explicit(obj, &expected, desired, ...) can
\* succeed only when *obj == expected
CasBlindStore(cur, expected) == TRUE
CasMaySucceed(cur, expected) == cur = expected

\* atomic_fetch_add_explicit(obj, 1, ...) / atomic_fetch_sub_explicit(obj, 1, ...)
\* on a size_t: the new value, modulo 2^WordBits
FetchAddTwo(v) == (v + 2) % Modulus
FetchAdd(v) == (v + 1) % Modulus
FetchSub(v) == (v + Modulus - 1) % Modulus

\* ------------------------------------------------------------------ arc_new
\* void *arc_new(size_t nbytes): rejects nbytes == 0, fails when malloc
\* fails, otherwise initialises both counters.
ArcNewSized(t, nbytes) ==
  /\ alloc = "none"
  /\ pc[t] = "idle"
  /\ \E mallocOk \in BOOLEAN :
       IF InvalidSize(nbytes) \/ ~mallocOk
       THEN /\ Return(t, "NULL")
            /\ UNCHANGED << alloc, header, strongHeld >>
       ELSE /\ alloc' = "live"
            /\ strong_count' = 1
            /\ weak_count' = InitialWeak
            /\ strongHeld' = [strongHeld EXCEPT ![t] = @ + 1]
            /\ Return(t, "handle")
  /\ UNCHANGED << locals, errno, weakHeld, ghosts, uaf, cf >>

ArcNew(t) == \E nbytes \in 0..1 : ArcNewSized(t, nbytes)

\* a faulty arc_clone: a refused call takes its increment back
ArcCloneRollback(t) ==
  /\ pc[t] = "idle"
  /\ StrongAvailable # {}
  /\ Handles < cap
  /\ \E old \in Load(strong_count) :
       IF Overflows(old)
       THEN /\ errno' = [errno EXCEPT ![t] = "ETOOMANYREFS"]
            /\ Return(t, "NULL")
            /\ UNCHANGED << strong_count, strongHeld >>
       ELSE /\ strong_count' = FetchAdd(old)
            /\ strongHeld' = [strongHeld EXCEPT ![t] = @ + 1]
            /\ Return(t, "handle")
            /\ UNCHANGED errno
  /\ Touch
  /\ cf' = IF cf.pure THEN [cf EXCEPT !.net = @ + 1] ELSE cf
  /\ UNCHANGED << alloc, weak_count, locals, weakHeld, ghosts >>

\* ---------------------------------------------------------------- arc_clone
\* prev = fetch_add(strong_count, 1, relaxed); NULL when prev is over the
\* ceiling, the counter staying incremented.
ArcClone(t) ==
  /\ pc[t] = "idle"
  /\ StrongAvailable # {}
  /\ Handles < cap
  /\ \E old \in Load(strong_count) :
       /\ strong_count' = FetchAdd(old)
       /\ IF Overflows(old)
          THEN /\ errno' = [errno EXCEPT ![t] = "ETOOMANYREFS"]
               /\ Return(t, "NULL")
               /\ UNCHANGED strongHeld
          ELSE /\ strongHeld' = [strongHeld EXCEPT ![t] = @ + 1]
               /\ Return(t, "handle")
               /\ UNCHANGED errno
  /\ Touch
  /\ cf' = IF cf.pure THEN [cf EXCEPT !.net = @ + 1] ELSE cf
  /\ UNCHANGED << alloc, weak_count, locals, weakHeld, ghosts >>

\* ----------------------------------------------------------------- arc_free
\* prev = fetch_sub(strong_count, 1, release); only the last strong survivor
\* goes on to the destructor and the release of the implicit weak.
ArcFreeWith(t, d) ==
  /\ pc[t] = "idle"
  /\ strongHeld[t] > 0
  /\ strongHeld[t] = 1 => StrongBorrowers(t) = {}
  /\ strongHeld' = [strongHeld EXCEPT ![t] = @ - 1]
  /\ \E old \in Load(strong_count) :
       /\ strong_count' = FetchSub(old)
       /\ lastStrong' = IF old = 1 THEN lastStrong + 1 ELSE lastStrong
       /\ IF StrongLast(old)
          THEN /\ pc' = [pc EXCEPT ![t] = "arc_free_last"]
               /\ prev' = [prev EXCEPT ![t] = old]
               /\ destructor' = [destructor EXCEPT ![t] = d]
               /\ UNCHANGED ret
          ELSE /\ Return(t, "void")
               /\ UNCHANGED << prev, destructor >>
  /\ Touch
  /\ cf' = IF cf.pure THEN [cf EXCEPT !.net = @ - 1] ELSE cf
  /\ UNCHANGED << alloc, weak_count, snapshot, owner, errno, weakHeld,
                  freeCalls, dtorRuns, dtorNull >>

ArcFree(t) == \E d \in BOOLEAN : ArcFreeWith(t, d)

\* a faulty arc_free tail: the implicit weak is released (and the header
\* freed when it was the last claim) before the destructor has run
ArcFreeReleaseFirst(t) ==
  /\ pc[t] = "arc_free_last"
  /\ weak_count' = FetchSub(weak_count)
  /\ alloc' = IF WeakLast(weak_count) THEN "freed" ELSE alloc
  /\ freeCalls' = IF WeakLast(weak_count) THEN freeCalls + 1 ELSE freeCalls
  /\ UNCHANGED << strong_count, pc, locals, ret, errno, strongHeld, weakHeld,
                  dtorRuns, dtorNull, lastStrong, uaf, cf, cap, script >>

\* acquire fence, then `if (destructor != NULL) destructor(arc_data);`
ArcFreeDestroy(t) ==
  /\ pc[t] = "arc_free_last"
  /\ pc' = [pc EXCEPT ![t] = "arc_free_weak"]
  /\ IF destructor[t]
     THEN /\ dtorRuns' = dtorRuns + 1
          /\ Touch
          /\ UNCHANGED dtorNull
     ELSE /\ dtorNull' = dtorNull + 1
          /\ UNCHANGED << dtorRuns, uaf >>
  /\ destructor' = [destructor EXCEPT ![t] = FALSE]
  /\ prev' = [prev EXCEPT ![t] = 0]
  /\ UNCHANGED << alloc, header, snapshot, owner, ret, errno, strongHeld,
                  weakHeld, freeCalls, lastStrong, cf >>

\* ---------------------------------------------------------------- weak_free
\* prev = fetch_sub(weak_count, 1, release).  Entered by a caller freeing a
\* weak handle it holds, or from arc_free (`weak_free(weak_data)`) for the
\* implicit weak.
WeakFree(t) ==
  /\ \/ /\ pc[t] = "idle"
        /\ weakHeld[t] > 0
        /\ weakHeld[t] = 1 => WeakBorrowers(t) = {}
        /\ weakHeld' = [weakHeld EXCEPT ![t] = @ - 1]
     \/ /\ pc[t] = "arc_free_weak"
        /\ UNCHANGED weakHeld
  /\ \E old \in Load(weak_count) :
       /\ weak_count' = FetchSub(old)
       /\ IF WeakLast(old)
          THEN /\ pc' = [pc EXCEPT ![t] = "weak_free_last"]
               /\ prev' = [prev EXCEPT ![t] = old]
               /\ UNCHANGED ret
          ELSE /\ Return(t, "void")
               /\ UNCHANGED prev
  /\ Touch
  /\ UNCHANGED << alloc, strong_count, snapshot, destructor, owner, errno,
                  strongHeld, ghosts, cf >>

\* acquire fence, then free(header)
WeakFreeDealloc(t) ==
  /\ pc[t] = "weak_free_last"
  /\ alloc' = "freed"
  /\ freeCalls' = freeCalls + 1
  /\ Touch
  /\ prev' = [prev EXCEPT ![t] = 0]
  /\ Return(t, "void")
  /\ UNCHANGED << header, snapshot, destructor, owner, errno, strongHeld,
                  weakHeld, dtorRuns, dtorNull, lastStrong, cf >>

\* --------------------------------------------------------------- weak_clone
\* prev = fetch_add(weak_count, 1, relaxed); NULL when prev is over the
\* ceiling, the counter staying incremented.
WeakClone(t) ==
  /\ pc[t] = "idle"
  /\ WeakAvailable # {}
  /\ Handles < cap
  /\ \E old \in Load(weak_count) :
       /\ weak_count' = FetchAdd(old)
       /\ IF Overflows(old)
          THEN /\ errno' = [errno EXCEPT ![t] = "ETOOMANYREFS"]
               /\ Return(t, "NULL")
               /\ UNCHANGED weakHeld
          ELSE /\ weakHeld' = [weakHeld EXCEPT ![t] = @ + 1]
               /\ Return(t, "handle")
               /\ UNCHANGED errno
  /\ Touch
  /\ UNCHANGED << alloc, strong_count, locals, strongHeld, ghosts, cf >>

\* ------------------------------------------------------------ arc_downgrade
\* snapshot = load(weak_count, relaxed), on a strong handle thread u holds
ArcDowngrade(t) ==
  /\ pc[t] = "idle"
  /\ Handles < cap
  /\ \E u \in StrongAvailable, v \in Load(weak_count) :
       /\ owner' = [owner EXCEPT ![t] = u]
       /\ snapshot' = [snapshot EXCEPT ![t] = v]
  /\ pc' = [pc EXCEPT ![t] = "downgrade_cas"]
  /\ Touch
  /\ UNCHANGED << alloc, header, prev, destructor, ret, errno, strongHeld,
                  weakHeld, ghosts, cf >>

\* one iteration of `for (;;)`: compare_exchange_weak(weak_count, &snapshot,
\* snapshot + 1).  A failure stores the current value into snapshot and goes
\* again; the weak form may also fail when the values are equal.
ArcDowngradeCas(t) ==
  /\ pc[t] = "downgrade_cas"
  /\ \E cur \in Load(weak_count) :
       \/ /\ CasMaySucceed(cur, snapshot[t])
          /\ weak_count' = FetchAdd(snapshot[t])
          /\ weakHeld' = [weakHeld EXCEPT ![t] = @ + 1]
          /\ snapshot' = [snapshot EXCEPT ![t] = 0]
          /\ owner' = [owner EXCEPT ![t] = t]
          /\ Return(t, "handle")
       \/ /\ snapshot' = [snapshot EXCEPT ![t] = cur]
          /\ UNCHANGED << weak_count, weakHeld, owner, pc, ret >>
  /\ Touch
  /\ UNCHANGED << alloc, strong_count, prev, destructor, errno, strongHeld,
                  ghosts, cf >>

\* ------------------------------------------------------------- weak_upgrade
\* snapshot = load(strong_count, relaxed), on a weak handle thread u holds
WeakUpgrade(t) ==
  /\ pc[t] = "idle"
  /\ Handles < cap
  /\ \E u \in WeakAvailable, v \in Load(strong_count) :
       /\ owner' = [owner EXCEPT ![t] = u]
       /\ snapshot' = [snapshot EXCEPT ![t] = v]
  /\ pc' = [pc EXCEPT ![t] = "upgrade_loop"]
  /\ Touch
  /\ UNCHANGED << alloc, header, prev, destructor, ret, errno, strongHeld,
                  weakHeld, ghosts, cf >>

\* one iteration of `for (;;)`: the two checks of snapshot, then
\* compare_exchange_weak(strong_count, &snapshot, snapshot + 1).
WeakUpgradeLoop(t) ==
  /\ pc[t] = "upgrade_loop"
  /\ IF NoStrongOwner(snapshot[t])
     THEN /\ errno' = [errno EXCEPT ![t] = "ENOENT"]
          /\ snapshot' = [snapshot EXCEPT ![t] = 0]
          /\ owner' = [owner EXCEPT ![t] = t]
          /\ Return(t, "NULL")
          /\ UNCHANGED << strong_count, strongHeld, uaf, cf >>
     ELSE IF Overflows(snapshot[t])
     THEN /\ errno' = [errno EXCEPT ![t] = "ETOOMANYREFS"]
          /\ snapshot' = [snapshot EXCEPT ![t] = 0]
          /\ owner' = [owner EXCEPT ![t] = t]
          /\ Return(t, "NULL")
          /\ UNCHANGED << strong_count, strongHeld, uaf, cf >>
     ELSE /\ \E cur \in Load(strong_count) :
               \/ /\ CasMaySucceed(cur, snapshot[t])
                  /\ strong_count' = FetchAdd(snapshot[t])
                  /\ strongHeld' = [strongHeld EXCEPT ![t] = @ + 1]
                  /\ snapshot' = [snapshot EXCEPT ![t] = 0]
                  /\ owner' = [owner EXCEPT ![t] = t]
                  /\ cf' = [pure |-> FALSE, net |-> 0]
                  /\ Return(t, "handle")
               \/ /\ snapshot' = [snapshot EXCEPT ![t] = cur]
                  /\ UNCHANGED << strong_count, strongHeld, owner, pc, ret, cf >>
          /\ Touch
          /\ UNCHANGED errno
  /\ UNCHANGED << alloc, weak_count, prev, destructor, weakHeld, ghosts >>

\* ----------------------------------------------------------- specification
\* any thread may call any function on a handle that is live
Next ==
  \/ \E t \in Threads : ArcNew(t) /\ UNCHANGED << cap, script >>
  \/ \E t \in Threads : ArcClone(t) /\ UNCHANGED << cap, script >>
  \/ \E t \in Threads : ArcFree(t) /\ UNCHANGED << cap, script >>
  \/ \E t \in Threads : ArcFreeDestroy(t) /\ UNCHANGED << cap, script >>
  \/ \E t \in Threads : WeakFree(t) /\ UNCHANGED << cap, script >>
  \/ \E t \in Threads : WeakFreeDealloc(t) /\ UNCHANGED << cap, script >>
  \/ \E t \in Threads : WeakClone(t) /\ UNCHANGED << cap, script >>
  \/ \E t \in Threads : ArcDowngrade(t) /\ UNCHANGED << cap, script >>
  \/ \E t \in Threads : ArcDowngradeCas(t) /\ UNCHANGED << cap, script >>
  \/ \E t \in Threads : WeakUpgrade(t) /\ UNCHANGED << cap, script >>
  \/ \E t \in Threads : WeakUpgradeLoop(t) /\ UNCHANGED << cap, script >>

Spec == Init /\ [][Next]_vars

TypeOK ==
  /\ alloc \in {"none", "live", "freed"}
  /\ strong_count \in 0..SIZE_MAX
  /\ weak_count \in 0..SIZE_MAX
  /\ \A t \in Threads : strongHeld[t] >= 0 /\ weakHeld[t] >= 0


\* ---------------------------------------------------- the stress test
\* test_arc runs as thread Main; it creates TestThreads workers, the first
\* half running arc_operations and the rest weak_operations, and joins them.
Main == 0
Workers == Threads \ {Main}

\* `for (int i = 0; i < NUM_THREADS / 2; ++i)` creates the arc_operations
\* threads; worker t is threads[t - 1]
ArcWorker(t) == t \in Workers /\ t - 1 < TestThreads \div 2

\* the calls of one iteration of arc_operations, in order
ArcOperations ==
  << "arc_clone", "read", "arc_free", "arc_downgrade", "weak_upgrade",
     "read", "arc_free", "weak_free" >>

\* the calls of one iteration of weak_operations, in order
WeakOperations ==
  << "weak_clone", "weak_free", "weak_upgrade", "read", "arc_free" >>

\* the statements of test_arc, in order
TestArc ==
  << "arc_new", "write", "arc_downgrade", "validate_1_2", "create", "join",
     "validate_1_2", "weak_free", "validate_1_1", "arc_free" >>

Program(t) ==
  IF t = Main THEN TestArc
  ELSE IF ArcWorker(t) THEN ArcOperations ELSE WeakOperations

\* the statement thread t is at; "return" past the end of test_arc
Op(t) == IF step[t] \in 1..Len(Program(t)) THEN Program(t)[step[t]] ELSE "return"

\* the calls whose result the test asserts to be != NULL
Asserted == {"arc_new", "arc_clone", "arc_downgrade", "weak_upgrade", "weak_clone"}

\* a worker has left its `for (i < NUM_OPERATIONS)` loop
Finished(t) == iter[t] = TestOperations

\* thread t may take a step of its function: the process has not exited, and
\* a worker runs between its pthread_create and the end of its loop
Active(t) ==
  /\ ~exited
  /\ t # Main => (Op(Main) = "join" /\ ~Finished(t))

At(t, op) == Active(t) /\ Idle(t) /\ Op(t) = op

\* go to the next statement; a worker at the end of the loop body does ++i
Advance(t) ==
  IF t # Main /\ step[t] = Len(Program(t))
  THEN /\ step' = [step EXCEPT ![t] = 1]
       /\ iter' = [iter EXCEPT ![t] = @ + 1]
  ELSE /\ step' = [step EXCEPT ![t] = @ + 1]
       /\ UNCHANGED iter

\* when the call has returned: ALWAYS_ASSERT(result != NULL) where the test
\* has one (exit on failure), then the next statement
Returned(t) ==
  /\ cap' = cap
  /\ IF pc'[t] = "idle"
     THEN IF Op(t) \in Asserted /\ ret'[t] = "NULL"
          THEN exited' = TRUE /\ UNCHANGED << step, iter >>
          ELSE Advance(t) /\ UNCHANGED exited
     ELSE UNCHANGED script

\* a statement that is no call of arc.h leaves the state of arc.h alone
NoCall ==
  UNCHANGED << alloc, header, pc, locals, ret, errno, strongHeld, weakHeld,
               ghosts, cf, cap >>

\* `*shared_arc = THE_UNIVERSE_AND_EVERYTHING;`
TestWrite(t) ==
  /\ At(t, "write")
  /\ Touch
  /\ Advance(t)
  /\ UNCHANGED exited
  /\ NoCall

\* `ALWAYS_ASSERT(*clone == THE_UNIVERSE_AND_EVERYTHING);`: holds of the live
\* payload; a read of freed memory may yield anything
TestRead(t) ==
  /\ At(t, "read")
  /\ Touch
  /\ \E same \in (IF alloc = "live" THEN {TRUE} ELSE BOOLEAN) :
       IF same THEN Advance(t) /\ UNCHANGED exited
       ELSE exited' = TRUE /\ UNCHANGED << step, iter >>
  /\ NoCall

\* validate_reference_counts(header, expected_strong, expected_weak)
TestValidate(t) ==
  /\ \E w \in 1..2 :
       /\ At(t, IF w = 2 THEN "validate_1_2" ELSE "validate_1_1")
       /\ \E s \in Load(strong_count), v \in Load(weak_count) :
            IF s = 1 /\ v = w THEN Advance(t) /\ UNCHANGED exited
            ELSE exited' = TRUE /\ UNCHANGED << step, iter >>
  /\ Touch
  /\ NoCall

\* the two pthread_create loops
TestCreate(t) ==
  /\ At(t, "create")
  /\ Advance(t)
  /\ UNCHANGED << exited, uaf >>
  /\ NoCall

\* the pthread_join loop returns when every worker has returned
TestJoin(t) ==
  /\ At(t, "join")
  /\ \A w \in Workers : Finished(w)
  /\ Advance(t)
  /\ UNCHANGED << exited, uaf >>
  /\ NoCall

InitTest ==
  /\ InitWith(0..TestThreads)
  /\ cap = 2 * TestThreads + 3
  /\ step = [t \in 0..TestThreads |-> 1]
  /\ iter = [t \in 0..TestThreads |-> 0]
  /\ exited = FALSE

NextTest ==
  \/ \E t \in Threads : At(t, "arc_new") /\ ArcNewSized(t, 1) /\ Returned(t)
  \/ \E t \in Threads : At(t, "arc_clone") /\ ArcClone(t) /\ Returned(t)
  \/ \E t \in Threads : At(t, "arc_free") /\ ArcFreeWith(t, FALSE) /\ Returned(t)
  \/ \E t \in Threads : At(t, "arc_downgrade") /\ ArcDowngrade(t) /\ Returned(t)
  \/ \E t \in Threads : At(t, "weak_upgrade") /\ WeakUpgrade(t) /\ Returned(t)
  \/ \E t \in Threads : At(t, "weak_clone") /\ WeakClone(t) /\ Returned(t)
  \/ \E t \in Threads : At(t, "weak_free") /\ WeakFree(t) /\ Returned(t)
  \/ \E t \in Threads : Active(t) /\ ArcFreeDestroy(t) /\ Returned(t)
  \/ \E t \in Threads : Active(t) /\ ~Idle(t) /\ WeakFree(t) /\ Returned(t)
  \/ \E t \in Threads : Active(t) /\ WeakFreeDealloc(t) /\ Returned(t)
  \/ \E t \in Threads : Active(t) /\ ArcDowngradeCas(t) /\ Returned(t)
  \/ \E t \in Threads : Active(t) /\ WeakUpgradeLoop(t) /\ Returned(t)
  \/ \E t \in Threads : TestWrite(t)
  \/ \E t \in Threads : TestRead(t)
  \/ \E t \in Threads : TestValidate(t)
  \/ \E t \in Threads : TestCreate(t)
  \/ \E t \in Threads : TestJoin(t)

SpecTest == InitTest /\ [][NextTest]_vars

\* ------------------------------------------- downgrade N times, then free
\* The callers of one allocation only downgrade the original strong handle
\* and free the weak handles they got: iter[t] counts the arc_downgrade calls
\* of t that have returned, step[t] the weak_free calls t has made.  The
\* original strong handle is never freed.  weak_free's free(header) branch
\* (WeakFreeDealloc) is not a disjunct here: it is entered only from
\* pc = "weak_free_last", which C11_DowngradeThenFree shows is never reached.
MaxDowngrades == 2

InitDowngrade ==
  /\ InitWith(1..NumThreads)
  /\ cap = MaxHandles
  /\ step = [t \in 1..NumThreads |-> 0]
  /\ iter = [t \in 1..NumThreads |-> 0]
  /\ exited = FALSE

NextDowngrade ==
  \/ \E t \in Threads : ArcNewSized(t, 1) /\ UNCHANGED << cap, script >>
  \/ \E t \in Threads :
       /\ iter[t] < MaxDowngrades
       /\ ArcDowngrade(t)
       /\ UNCHANGED << cap, script >>
  \/ \E t \in Threads :
       /\ ArcDowngradeCas(t)
       /\ iter' = [iter EXCEPT ![t] = IF pc'[t] = "idle" THEN @ + 1 ELSE @]
       /\ UNCHANGED << cap, step, exited >>
  \/ \E t \in Threads :
       /\ Idle(t)
       /\ WeakFree(t)
       /\ step' = [step EXCEPT ![t] = @ + 1]
       /\ UNCHANGED << cap, iter, exited >>

SpecDowngrade == InitDowngrade /\ [][NextDowngrade]_vars

\* --------------------------------------------- cloning up to the ceiling
\* One caller that may hold as many handles as the ceiling lets it have, so
\* that the overflow branches of arc_clone, weak_clone and weak_upgrade are
\* taken.  Handles are acquired and never freed.  The clone bookkeeping of cf
\* is switched off (pure = FALSE), failed clones being unbounded in number.
InitOverflow ==
  /\ alloc = "none"
  /\ strong_count = 0
  /\ weak_count = 0
  /\ pc = [t \in {1} |-> "idle"]
  /\ prev = [t \in {1} |-> 0]
  /\ snapshot = [t \in {1} |-> 0]
  /\ destructor = [t \in {1} |-> FALSE]
  /\ owner = [t \in {1} |-> t]
  /\ ret = [t \in {1} |-> "none"]
  /\ errno = [t \in {1} |-> "0"]
  /\ strongHeld = [t \in {1} |-> 0]
  /\ weakHeld = [t \in {1} |-> 0]
  /\ freeCalls = 0
  /\ dtorRuns = 0
  /\ dtorNull = 0
  /\ lastStrong = 0
  /\ uaf = FALSE
  /\ cf = [pure |-> FALSE, net |-> 0]
  /\ cap = ARC_WEAK_MAX_REFS + 2
  /\ step = [t \in {1} |-> 0]
  /\ iter = [t \in {1} |-> 0]
  /\ exited = FALSE

NextOverflow ==
  \/ \E t \in Threads : ArcNewSized(t, 1) /\ UNCHANGED << cap, script >>
  \/ \E t \in Threads : ArcClone(t) /\ UNCHANGED << cap, script >>
  \/ \E t \in Threads : WeakClone(t) /\ UNCHANGED << cap, script >>
  \/ \E t \in Threads : ArcDowngrade(t) /\ UNCHANGED << cap, script >>
  \/ \E t \in Threads : ArcDowngradeCas(t) /\ UNCHANGED << cap, script >>
  \/ \E t \in Threads : WeakUpgrade(t) /\ UNCHANGED << cap, script >>
  \/ \E t \in Threads : WeakUpgradeLoop(t) /\ UNCHANGED << cap, script >>

SpecOverflow == InitOverflow /\ [][NextOverflow]_vars

\* ------------------------------------------------- retries of the CAS loops
\* The functions of Next, with iter[t] = 1 when a compare_exchange_weak of the
\* loop thread t is in has failed, and 0 otherwise.  A failed CAS that found
\* the counter equal to its snapshot, which the weak form allows, is thereby
\* a step when it is the first failure of its call.
Retry(t) ==
  /\ iter' = [iter EXCEPT ![t] = IF pc'[t] = "idle" THEN 0 ELSE 1]
  /\ UNCHANGED << cap, step, exited >>

NextRetry ==
  \/ \E t \in Threads : ArcNew(t) /\ UNCHANGED << cap, script >>
  \/ \E t \in Threads : ArcClone(t) /\ UNCHANGED << cap, script >>
  \/ \E t \in Threads : ArcFree(t) /\ UNCHANGED << cap, script >>
  \/ \E t \in Threads : ArcFreeDestroy(t) /\ UNCHANGED << cap, script >>
  \/ \E t \in Threads : WeakFree(t) /\ UNCHANGED << cap, script >>
  \/ \E t \in Threads : WeakFreeDealloc(t) /\ UNCHANGED << cap, script >>
  \/ \E t \in Threads : WeakClone(t) /\ UNCHANGED << cap, script >>
  \/ \E t \in Threads : ArcDowngrade(t) /\ UNCHANGED << cap, script >>
  \/ \E t \in Threads : ArcDowngradeCas(t) /\ Retry(t)
  \/ \E t \in Threads : WeakUpgrade(t) /\ UNCHANGED << cap, script >>
  \/ \E t \in Threads : WeakUpgradeLoop(t) /\ Retry(t)

SpecRetry == Init /\ [][NextRetry]_vars

\* ------------------------------------------------------------------ claims
\* a step of thread t inside the loop of weak_upgrade
UpgradeStep(t) ==
  /\ pc[t] = "upgrade_loop"
  /\ (pc'[t] # pc[t] \/ snapshot'[t] # snapshot[t])

\* C1: the allocation is deallocated at most once; free(header) is reached
\* only by the weak_free whose decrement took weak_count from 1 to 0; and at
\* that moment no other call is running and no live handle is left, so that
\* no access of the header or the payload ever falls outside its lifetime.
C1_DeallocatedOnceAtLastWeak ==
  /\ freeCalls <= 1
  /\ (alloc = "freed") = (freeCalls = 1)
  /\ ~uaf
  /\ \A t \in Threads :
       pc[t] = "weak_free_last" =>
         /\ alloc = "live"
         /\ prev[t] = 1
         /\ weak_count = 0
         /\ strong_count = 0
         /\ Handles = 0
         /\ \A u \in Threads \ {t} : Idle(u)
  /\ alloc = "freed" => (Quiescent /\ Handles = 0 /\ weak_count = 0)

\* the header has been freed after explicit weak handles outlived the payload
C1_Witness ==
  /\ alloc = "freed"
  /\ freeCalls = 1
  /\ weak_count = 0
  /\ \E t \in Threads : errno[t] = "ENOENT"

\* C2: the destructor site of arc_free is reached exactly once, by the one
\* arc_free call whose fetch_sub returned 1, however the arc_free, arc_clone
\* and weak_upgrade calls interleave; that call invokes the destructor it was
\* given, and no other call does.
C2_DestructorOnce ==
  /\ lastStrong <= 1
  /\ dtorRuns + dtorNull <= lastStrong
  /\ \A t \in Threads : pc[t] = "arc_free_last" => (prev[t] = 1 /\ dtorRuns + dtorNull = 0)
  /\ Cardinality({t \in Threads : pc[t] = "arc_free_last"}) <= 1
  /\ (alloc # "none" /\ strong_count = 0) => lastStrong = 1
  /\ (lastStrong = 1 /\ \A t \in Threads : pc[t] # "arc_free_last")
        => dtorRuns + dtorNull = 1

\* the destructor has run after clones and an upgrade were freed concurrently
C2_Witness ==
  /\ dtorRuns = 1
  /\ ~cf.pure
  /\ strong_count = 0
  /\ \E t \in Threads : pc[t] = "arc_free_weak"

\* C3: weak_upgrade returns a strong handle exactly when its
\* compare-and-swap succeeded from a snapshot greater than 0 that equals the
\* current strong_count, which it raises by exactly 1; with a snapshot of 0
\* it fails at once with ENOENT and leaves strong_count alone; every other
\* step of the loop only refreshes the snapshot with the current value.
C3_UpgradeIffCas ==
  [][\A t \in Threads :
       UpgradeStep(t) =>
         /\ (ret'[t] = "handle" /\ pc'[t] = "idle")
              <=> (strongHeld'[t] = strongHeld[t] + 1)
         /\ (strongHeld'[t] = strongHeld[t] + 1)
              <=> (snapshot[t] > 0 /\ strong_count = snapshot[t]
                     /\ strong_count' = strong_count + 1)
         /\ (strongHeld'[t] = strongHeld[t] + 1) \/ strong_count' = strong_count
         /\ snapshot[t] = 0
              => (pc'[t] = "idle" /\ ret'[t] = "NULL" /\ errno'[t] = "ENOENT")
         /\ (pc'[t] = "idle" /\ ret'[t] = "NULL")
              => (snapshot[t] = 0 \/ snapshot[t] > ARC_WEAK_MAX_REFS - 1)
         /\ pc'[t] = "upgrade_loop"
              => (snapshot'[t] = strong_count /\ snapshot[t] # strong_count)]_vars

\* one upgrade has succeeded and a later one has failed with ENOENT
C3_Witness ==
  /\ ~cf.pure
  /\ \E t \in Threads : errno[t] = "ENOENT" /\ ret[t] = "NULL"

\* C4: Invariant A: in every state of the allocation's lifetime, also inside
\* arc_free, arc_downgrade and weak_upgrade, strong_count > 0 implies
\* weak_count >= 1.
C4_InvariantA ==
  (alloc = "live" /\ strong_count > 0) => weak_count >= 1

\* only the implicit weak is left while a downgrade holds a stale snapshot
C4_Witness ==
  /\ alloc = "live"
  /\ strong_count > 0
  /\ weak_count = 1
  /\ \E t \in Threads : pc[t] = "downgrade_cas" /\ snapshot[t] = 2

\* C5: while a weak handle is live, or a call on one is running, the
\* allocation has not been deallocated, also after the last strong handle
\* was freed and the destructor has run.
C5_WeakKeepsAllocation ==
  (LiveWeak > 0 \/ \E t \in Threads : pc[t] = "upgrade_loop")
     => (alloc = "live" /\ freeCalls = 0 /\ weak_count >= 1 /\ ~uaf)

\* the payload is destroyed, the implicit weak released, a weak handle lives on
C5_Witness ==
  /\ strong_count = 0
  /\ dtorRuns = 1
  /\ LiveWeak > 0
  /\ Quiescent
  /\ alloc = "live"
  /\ \E t \in Threads : errno[t] = "ENOENT"

\* C6: until the destructor call of arc_free has returned, that arc_free has
\* not released the implicit weak: the allocation is live and weak_count >= 1
\* while a thread is at the destructor, and the destructor site has been
\* passed whenever the allocation is being or has been deallocated.
C6_DestructorBeforeRelease ==
  /\ \A t \in Threads :
       pc[t] = "arc_free_last" => (alloc = "live" /\ weak_count >= 1)
  /\ ((\E t \in Threads : pc[t] = "weak_free_last") \/ alloc = "freed")
       => dtorRuns + dtorNull = 1
  /\ dtorRuns > 0 => ~uaf

\* the last arc_free is at its destructor while another thread frees a weak
C6_Witness ==
  \E t, u \in Threads :
    /\ pc[t] = "arc_free_last"
    /\ destructor[t]
    /\ weak_count = 1
    /\ ret[u] = "void"
    /\ LiveWeak = 0

\* C7: in the stress test, once every worker has finished, strong_count = 1
\* and weak_count = 2 again, the allocation has not been deallocated and no
\* arc_free has reached the destructor; no assertion fails once arc_new has
\* succeeded.
C7_TestCountsRestored ==
  /\ (Op(Main) \in {"join", "validate_1_2"} /\ \A w \in Workers : Finished(w))
       => /\ strong_count = 1
          /\ weak_count = 2
          /\ alloc = "live"
          /\ freeCalls = 0
          /\ lastStrong = 0
          /\ dtorRuns + dtorNull = 0
          /\ ~uaf
  /\ exited => alloc = "none"

\* every worker has gone through its loop and test_arc has joined them
C7_Witness ==
  /\ step[Main] = Len(TestArc) - 3
  /\ \A w \in Workers : Finished(w)
  /\ \E a, b \in Workers : ArcWorker(a) /\ ~ArcWorker(b)
  /\ ~exited

\* C8: a weak_upgrade call that returns NULL does so when no strong handle is
\* live; hence none fails while some strong handle stays live.
C8_UpgradeNeverFailsWithStrong ==
  [][\A t \in Threads :
       (UpgradeStep(t) /\ pc'[t] = "idle" /\ ret'[t] = "NULL")
         => (LiveStrong = 0 /\ strong_count = 0)]_vars

\* an upgrade succeeded after a failed compare-and-swap, with a strong live
C8_Witness ==
  \E t \in Threads :
    /\ pc[t] = "upgrade_loop"
    /\ snapshot[t] > 0
    /\ snapshot[t] # strong_count
    /\ LiveStrong > 0

\* C9: once every handle has been freed and every call has returned, the
\* allocation has been deallocated, exactly once, and both counters are 0.
C9_AllFreedDeallocated ==
  (alloc # "none" /\ Quiescent /\ Handles = 0)
     => (alloc = "freed" /\ freeCalls = 1 /\ strong_count = 0 /\ weak_count = 0)

\* everything was freed, the last claim having been an explicit weak
C9_Witness ==
  /\ alloc = "freed"
  /\ Quiescent
  /\ Handles = 0
  /\ ~cf.pure

\* C10: as long as only arc_clone and arc_free have changed strong_count, it
\* equals 1 + (arc_clone calls) - (arc_free calls).
C10_StrongCountArithmetic ==
  (alloc = "live" /\ cf.pure) => strong_count = 1 + cf.net

\* two clones are live beside the original after a free
C10_Witness ==
  /\ alloc = "live"
  /\ cf.pure
  /\ cf.net = 2
  /\ strong_count = 3
  /\ \E t \in Threads : ret[t] = "void"

\* C11: with the original strong handle live, after N arc_downgrade calls
\* and a weak_free of each of the N weak handles they returned, whatever the
\* interleaving, weak_count = 1, the allocation has not been deallocated (no
\* weak_free has read prev == 1) and strong_count is what arc_new made it.
C11_DowngradeThenFree ==
  /\ alloc # "freed"
  /\ \A t \in Threads : pc[t] # "weak_free_last"
  /\ alloc = "live" =>
       /\ strong_count = 1
       /\ weak_count = 1 + SumOver(iter, Threads) - SumOver(step, Threads)
       /\ SumOver(step, Threads) = SumOver(iter, Threads) => weak_count = 1

\* every thread has made MaxDowngrades downgrades and freed what it got
C11_Witness ==
  /\ alloc = "live"
  /\ Quiescent
  /\ \A t \in Threads : iter[t] = MaxDowngrades /\ step[t] = MaxDowngrades
  /\ weak_count = 1

C13_ClonesNeverWrap ==
  [][\A t \in Threads : pc[t] = "idle" /\ pc'[t] = "idle" =>
       /\ ~(strong_count = SIZE_MAX /\ strong_count' = 0)
       /\ ~(weak_count = SIZE_MAX /\ weak_count' = 0)]_vars

\* What arc_clone, weak_clone and weak_upgrade return, given the predicate
\* Over that says which observed values are refused as too many references:
\* a clone step (idle to idle on a live allocation, its counter written)
\* returns NULL with ETOOMANYREFS iff Over holds of the value it found and a
\* handle otherwise; a weak_upgrade that returns fails with ENOENT iff its
\* snapshot is 0, with ETOOMANYREFS iff Over holds of its snapshot, and
\* otherwise returns a handle.
Refused(t) == ret'[t] = "NULL" /\ errno'[t] = "ETOOMANYREFS"

OverflowRule(Over(_)) ==
  \A t \in Threads :
    /\ (pc[t] = "idle" /\ pc'[t] = "idle" /\ alloc = "live"
          /\ strong_count' # strong_count) =>
         /\ Refused(t) <=> Over(strong_count)
         /\ (ret'[t] = "handle" /\ strongHeld'[t] = strongHeld[t] + 1)
              <=> ~Over(strong_count)
    /\ (pc[t] = "idle" /\ pc'[t] = "idle" /\ alloc = "live"
          /\ weak_count' # weak_count) =>
         /\ Refused(t) <=> Over(weak_count)
         /\ (ret'[t] = "handle" /\ weakHeld'[t] = weakHeld[t] + 1)
              <=> ~Over(weak_count)
    /\ (pc[t] = "upgrade_loop" /\ pc'[t] = "idle") =>
         /\ (ret'[t] = "NULL" /\ errno'[t] = "ENOENT") <=> snapshot[t] = 0
         /\ Refused(t) <=> (snapshot[t] # 0 /\ Over(snapshot[t]))
         /\ (ret'[t] = "handle" /\ strongHeld'[t] = strongHeld[t] + 1)
              <=> (snapshot[t] # 0 /\ ~Over(snapshot[t]))

\* C14 as stated: the three functions fail with ETOOMANYREFS exactly when the
\* observed value is strictly greater than SIZE_MAX/2 and succeed for every
\* observed value <= SIZE_MAX/2 (and > 0 for weak_upgrade).
C14_FailsAboveCeiling ==
  [][OverflowRule(LAMBDA p : p > ARC_WEAK_MAX_REFS)]_vars

\* C14: the three functions fail with ETOOMANYREFS exactly when the observed
\* value is greater than SIZE_MAX/2 - 1, that is >= SIZE_MAX/2, and succeed
\* for every observed value < SIZE_MAX/2 (and > 0 for weak_upgrade).
C14_FailsFromCeiling ==
  [][OverflowRule(LAMBDA p : p >= ARC_WEAK_MAX_REFS)]_vars

\* the first refused arc_clone: it found strong_count = SIZE_MAX/2
C14_Witness ==
  \E t \in Threads :
    /\ ret[t] = "NULL" /\ errno[t] = "ETOOMANYREFS" /\ pc[t] = "idle"
    /\ strong_count = ARC_WEAK_MAX_REFS + 1
    /\ LiveStrong = ARC_WEAK_MAX_REFS
    /\ LiveWeak = 0

\* C15: arc_new(n) with n > 0 that returns a handle leaves a live allocation
\* with strong_count = 1 and weak_count = 1, the handle being the caller's;
\* arc_new(0) returns NULL (the code's only signal: errno is not written),
\* hands out no handle and allocates nothing.
C15_NewEstablishesCounts ==
  [][\A t \in Threads :
       /\ ArcNewSized(t, 0) =>
            /\ ret'[t] = "NULL" /\ errno' = errno
            /\ alloc' = "none"
            /\ strong_count' = strong_count /\ weak_count' = weak_count
            /\ strongHeld' = strongHeld /\ weakHeld' = weakHeld
       /\ (ArcNewSized(t, 1) /\ ret'[t] = "handle") =>
            /\ alloc' = "live"
            /\ strong_count' = 1 /\ weak_count' = 1
            /\ strongHeld'[t] = strongHeld[t] + 1
            /\ LiveStrong' = 1 /\ LiveWeak' = 0]_vars

\* one thread was refused (NULL, errno untouched), then another got the
\* handle of a fresh allocation
C15_Witness ==
  /\ alloc = "live" /\ Quiescent
  /\ strong_count = 1 /\ weak_count = 1
  /\ \E t, u \in Threads :
       /\ ret[t] = "handle" /\ strongHeld[t] = 1
       /\ ret[u] = "NULL" /\ errno[u] = "0" /\ strongHeld[u] = 0

\* the counter the loop of thread t works on, and the steps of that loop
InLoop(t) == pc[t] \in {"downgrade_cas", "upgrade_loop"}

Counter(t) == IF pc[t] = "downgrade_cas" THEN weak_count ELSE strong_count

Retried(t) ==
  /\ InLoop(t) /\ pc'[t] = pc[t]
  /\ iter'[t] # iter[t] \/ snapshot'[t] # snapshot[t]

Completed(t) == InLoop(t) /\ pc'[t] = "idle" /\ ret'[t] = "handle"

C18_ZeroIsFinal ==
  [][(alloc = "live" /\ strong_count = 0) =>
       /\ alloc' = "live" => strong_count' = 0
       /\ LiveStrong = 0 /\ LiveStrong' = 0
       /\ lastStrong = 1 /\ lastStrong' = 1
       /\ \A t \in Threads :
            (pc[t] = "upgrade_loop" /\ pc'[t] = "idle") =>
               ret'[t] = "NULL" /\ errno'[t] = "ENOENT"]_vars

\* the last arc_free has taken strong_count to 0 while a weak_upgrade holds
\* the snapshot 1 it loaded before
C18_Witness ==
  /\ alloc = "live" /\ strong_count = 0 /\ lastStrong = 1
  /\ \E t \in Threads : pc[t] = "upgrade_loop" /\ snapshot[t] = 1
  /\ \E u \in Threads : pc[u] = "arc_free_last"

\* C19: a weak_upgrade that returns NULL (ENOENT or ETOOMANYREFS) leaves
\* strong_count and weak_count as they were, and no step of its loop other
\* than a successful CAS writes a counter; an arc_clone or weak_clone that
\* returns NULL with ETOOMANYREFS hands out no handle and leaves its own
\* counter one higher (modulo 2^w) than it found it, the other untouched.
C19_FailureEffects ==
  [][\A t \in Threads :
       /\ (pc[t] = "upgrade_loop"
             /\ ~(pc'[t] = "idle" /\ ret'[t] = "handle")) =>
            /\ strong_count' = strong_count /\ weak_count' = weak_count
            /\ strongHeld' = strongHeld /\ weakHeld' = weakHeld
            /\ pc'[t] = "idle" =>
                 ret'[t] = "NULL" /\ errno'[t] \in {"ENOENT", "ETOOMANYREFS"}
       /\ (pc[t] = "idle" /\ pc'[t] = "idle" /\ alloc = "live"
             /\ ret'[t] = "NULL") =>
            /\ errno'[t] = "ETOOMANYREFS"
            /\ strongHeld' = strongHeld /\ weakHeld' = weakHeld
            /\ \/ /\ strong_count' = (strong_count + 1) % Modulus
                  /\ weak_count' = weak_count
               \/ /\ weak_count' = (weak_count + 1) % Modulus
                  /\ strong_count' = strong_count]_vars

\* two arc_clone calls have failed: strong_count is two above the number of
\* strong handles
C19_Witness ==
  \E t \in Threads :
    /\ pc[t] = "idle" /\ ret[t] = "NULL" /\ errno[t] = "ETOOMANYREFS"
    /\ LiveStrong = ARC_WEAK_MAX_REFS
    /\ strong_count = LiveStrong + 2
    /\ weak_count = LiveWeak + 1

\* the implicit weak unit is still in weak_count: a strong handle is live, or
\* the arc_free that took strong_count from 1 to 0 has not released it yet
ImplicitUnit ==
  IF strong_count > 0
       \/ \E t \in Threads : pc[t] \in {"arc_free_last", "arc_free_weak"}
  THEN 1 ELSE 0

\* C20: on a live allocation on which no clone has failed, strong_count is
\* the number of live strong handles and weak_count is the number of live
\* explicit weak handles plus the implicit unit: plus 1 while strong_count > 0
\* and plus 0 once strong_count = 0 and no operation is in progress.  The
\* unit is taken out once, by the one arc_free that read prev == 1.
C20_CountingInvariant ==
  (alloc = "live" /\ \A t \in Threads : errno[t] # "ETOOMANYREFS") =>
     /\ strong_count = LiveStrong
     /\ weak_count = LiveWeak + ImplicitUnit
     /\ Quiescent =>
          weak_count = LiveWeak + (IF strong_count > 0 THEN 1 ELSE 0)
     /\ lastStrong = (IF strong_count > 0 THEN 0 ELSE 1)
     /\ Cardinality({t \in Threads :
                       pc[t] \in {"arc_free_last", "arc_free_weak"}}) <= 1

\* no strong handle is left and two explicit weak handles keep the header
C20_Witness ==
  /\ alloc = "live" /\ Quiescent
  /\ strong_count = 0 /\ LiveStrong = 0 /\ lastStrong = 1
  /\ LiveWeak = 2 /\ weak_count = 2
  /\ \A t \in Threads : errno[t] # "ETOOMANYREFS"

=============================================================================
